---- MODULE Spec2Model ----
(***************************************************************************)
(* The sparse voxel volume of office-apocalypse (src/src/tensor.rs): a     *)
(* run-length sequence of SparseNode with its extent and placement, the    *)
(* operations that address, mutate and iterate it, and combine().          *)
(*                                                                         *)
(* Indices are 0-based as in the source: At(ns, k) is ns[k] of the Vec.    *)
(* A call that panics leaves `ret` at Panic and the program stops there.   *)
(***************************************************************************)
EXTENDS Integers, Sequences, FiniteSets, TLC

VARIABLES
    nodes,            \* SparseTensorChunk.nodes : Vec<SparseNode>
    dim,              \* SparseTensorChunk.dim : UVec3, as <<x, y, z>>
    transform,        \* SparseTensorChunk.transform : Mat4 (a translation, see mat_apply)
    overflow_checks,  \* the build profile: TRUE = debug (overflow panics), FALSE = release (wraps)
    call,             \* the last call made on the volume: [op, i, vox]
    ret,              \* what that call returned (Panic when it panicked)
    old,              \* `nodes` as they were when that call started
    chained,          \* TRUE iff the call before the last one was a completed
                      \* insert(call.i, Some(_)) at the same coordinate
    a, b, c,          \* the operands and the result of combine(a, b)
    inserted,         \* the coordinates inserted so far into a volume that has seen
                      \* nothing but inserts of distinct in-bounds coordinates
    model,            \* the Model handed to SparseTensorChunk::from
    position,         \* Brain.position : UVec3
    route,            \* Brain.route : Vec<UVec3>
    old_route,        \* `route` as it was when the last call on the brain started
    graph,            \* SceneGraph.nodes : Vec<Option<SceneNode>>
    old_graph         \* `graph` as it was when the last call on the graph started

\* what the calls on one volume and combine leave alone
others == <<inserted, model, position, route, old_route, graph, old_graph>>

vars == <<nodes, dim, transform, overflow_checks, call, ret, old, chained, a, b, c, others>>

(***************************************************************************)
(* Bounds of the model.                                                    *)
(***************************************************************************)
MaxAxis  == 3    \* every component of an extent is in 0..MaxAxis
MaxCells == 3    \* an extent has at most MaxCells cells
MaxMat   == 1    \* materials are MaterialId(0) .. MaterialId(MaxMat)

(***************************************************************************)
(* Values.                                                                 *)
(***************************************************************************)
None      == [kind |-> "none"]
Some(x)   == [kind |-> "some", val |-> x]
Unit      == [kind |-> "unit"]
Panic     == [kind |-> "panic"]

MaterialId == 0..MaxMat

\* enum SparseNode { Nothing(u32), Voxel((UVec3, MaterialId)) }
Nothing(n)  == [tag |-> "Nothing", n |-> n]
Voxel(p, m) == [tag |-> "Voxel", v |-> <<p, m>>]

UVec3(x, y, z) == <<x, y, z>>
ZERO           == UVec3(0, 0, 0)
IDENTITY       == <<0, 0, 0>>

product(d) == d[1] * d[2] * d[3]

At(ns, k)       == ns[k + 1]
InRange(ns, k)  == k >= 0 /\ k < Len(ns)
SetAt(ns, k, x) == [ns EXCEPT ![k + 1] = x]
RemoveAt(ns, k) == SubSeq(ns, 1, k) \o SubSeq(ns, k + 2, Len(ns))

\* SparseNode::voxel / voxel_mut: the payload of a Voxel, a panic on Nothing
node_voxel(node) == IF node.tag = "Nothing" THEN Panic ELSE Some(node.v)

\* SparseNode::nils
nils(node) == IF node.tag = "Nothing" THEN node.n ELSE 0

\* SparseNode::add_nils: Nothing(n) becomes Nothing(n + i), a panic on Voxel
add_nils(node, i) == IF node.tag = "Nothing" THEN Some(Nothing(node.n + i)) ELSE Panic

(***************************************************************************)
(* SparseTensorChunk::nothing                                              *)
(***************************************************************************)
nothing(d) ==
    [nodes |-> [k \in 1..product(d) |-> Nothing(1)], dim |-> d, transform |-> IDENTITY]

(***************************************************************************)
(* SparseTensorChunk::near_idx.  The u32 sums stay far below 2^32 within   *)
(* the bounds.  With an empty Vec `self.nodes.len() - 1` overflows: a      *)
(* panic under overflow checks, otherwise the wrapped usize::MAX, written  *)
(* here as -1 (equal to it modulo 2^64 and, like it, an index of no Vec).  *)
(***************************************************************************)
\* variant: the loop stops only at a segment that starts past the address
RECURSIVE near_idx_loop_strict(_, _, _, _)
near_idx_loop_strict(ns, i, n, j) ==
    IF n >= Len(ns) THEN Len(ns) - 1
    ELSE IF j > i THEN n
    ELSE near_idx_loop_strict(ns, i, n + 1,
                              j + (IF At(ns, n).tag = "Nothing" THEN At(ns, n).n ELSE 1))

RECURSIVE near_idx_loop(_, _, _, _)
near_idx_loop(ns, i, n, j) ==
    IF n >= Len(ns) THEN Len(ns) - 1
    ELSE IF j > i THEN n
    ELSE IF j = i THEN n
    ELSE near_idx_loop(ns, i, n + 1,
                       j + (IF At(ns, n).tag = "Nothing" THEN At(ns, n).n ELSE 1))

near_idx(ns, d, oc, i_) ==
    LET i == i_[1] + i_[2] * d[1] + i_[3] * d[2] * d[1] IN
    IF i > product(d) THEN Panic
    ELSE IF Len(ns) = 0 /\ oc THEN Panic
    ELSE Some(near_idx_loop(ns, i, 0, 0))

(***************************************************************************)
(* SparseTensorChunk::idx                                                  *)
(***************************************************************************)
idx(ns, d, oc, i_) ==
    LET r == near_idx(ns, d, oc, i_) IN
    IF r = Panic THEN Panic
    ELSE IF ~InRange(ns, r.val) THEN Panic
    ELSE IF At(ns, r.val).tag = "Nothing" THEN None
    ELSE Some(r.val)

(***************************************************************************)
(* SparseTensorChunk::insert.  The result is [ret, nodes].                 *)
(***************************************************************************)
\* variant: the node is written before the target segment is examined
insert_writes_first(ns, d, oc, i_, vox) ==
    LET node == IF vox.kind = "some" THEN Voxel(i_, vox.val) ELSE Nothing(1)
        r    == near_idx(ns, d, oc, i_)
    IN  IF r = Panic THEN [ret |-> Panic, nodes |-> ns]
        ELSE IF ~InRange(ns, r.val) THEN [ret |-> Panic, nodes |-> ns]
        ELSE IF At(ns, r.val) = Nothing(1) \/ At(ns, r.val).tag = "Voxel"
             THEN [ret |-> Unit, nodes |-> SetAt(ns, r.val, node)]
             ELSE [ret |-> Panic, nodes |-> SetAt(ns, r.val, node)]

\* The panic insert ends in, by its message ("none" when it completes).
insert_failure(ns, d, oc, i_) ==
    LET i == i_[1] + i_[2] * d[1] + i_[3] * d[2] * d[1]
        r == near_idx(ns, d, oc, i_)
    IN  IF i > product(d) THEN "out of bounds"
        ELSE IF r = Panic THEN "attempt to subtract with overflow"
        ELSE IF ~InRange(ns, r.val) THEN "index out of bounds"
        ELSE IF At(ns, r.val) = Nothing(1) \/ At(ns, r.val).tag = "Voxel" THEN "none"
        ELSE "Cannot insert space slot containing multiple empty voxels"

insert(ns, d, oc, i_, vox) ==
    LET node == IF vox.kind = "some" THEN Voxel(i_, vox.val) ELSE Nothing(1)
        r    == near_idx(ns, d, oc, i_)
    IN  IF r = Panic THEN [ret |-> Panic, nodes |-> ns]
        ELSE IF ~InRange(ns, r.val) THEN [ret |-> Panic, nodes |-> ns]
        ELSE IF At(ns, r.val) = Nothing(1) \/ At(ns, r.val).tag = "Voxel"
             THEN [ret |-> Unit, nodes |-> SetAt(ns, r.val, node)]
             ELSE [ret |-> Panic, nodes |-> ns]

(***************************************************************************)
(* SparseTensorChunk::remove.  `i - 1` with i = 0 overflows: a panic under *)
(* overflow checks, otherwise get_mut(usize::MAX) is None.                 *)
(***************************************************************************)
\* variant: the vacated segment is deleted without lengthening the neighbouring run
remove_forgets_run(ns, d, oc, i_) ==
    LET r == idx(ns, d, oc, i_) IN
    IF r = Panic THEN [ret |-> Panic, nodes |-> ns]
    ELSE IF r = None THEN [ret |-> Unit, nodes |-> ns]
    ELSE LET i == r.val IN
         IF InRange(ns, i + 1) /\ At(ns, i + 1).tag = "Nothing"
         THEN [ret |-> Unit, nodes |-> RemoveAt(ns, i)]
         ELSE IF i = 0 /\ oc THEN [ret |-> Panic, nodes |-> ns]
         ELSE IF InRange(ns, i - 1) /\ At(ns, i - 1).tag = "Nothing"
         THEN [ret |-> Unit, nodes |-> RemoveAt(ns, i)]
         ELSE [ret |-> Unit, nodes |-> SetAt(ns, i, Nothing(1))]

\* variant: the lengthened neighbour is deleted instead of the vacated segment
remove_wrong_segment(ns, d, oc, i_) ==
    LET r == idx(ns, d, oc, i_) IN
    IF r = Panic THEN [ret |-> Panic, nodes |-> ns]
    ELSE IF r = None THEN [ret |-> Unit, nodes |-> ns]
    ELSE LET i == r.val IN
         IF InRange(ns, i + 1) /\ At(ns, i + 1).tag = "Nothing"
         THEN [ret |-> Unit,
               nodes |-> RemoveAt(SetAt(ns, i + 1, Nothing(At(ns, i + 1).n + 1)), i + 1)]
         ELSE IF i = 0 /\ oc THEN [ret |-> Panic, nodes |-> ns]
         ELSE IF InRange(ns, i - 1) /\ At(ns, i - 1).tag = "Nothing"
         THEN [ret |-> Unit,
               nodes |-> RemoveAt(SetAt(ns, i - 1, Nothing(At(ns, i - 1).n + 1)), i - 1)]
         ELSE [ret |-> Unit, nodes |-> SetAt(ns, i, Nothing(1))]

\* variant: when both neighbours are empty runs, both are lengthened
remove_lengthens_both(ns, d, oc, i_) ==
    LET r == idx(ns, d, oc, i_) IN
    IF r = Panic THEN [ret |-> Panic, nodes |-> ns]
    ELSE IF r = None THEN [ret |-> Unit, nodes |-> ns]
    ELSE LET i    == r.val
             grow == [k \in 1..Len(ns) |->
                         IF (k = i \/ k = i + 2) /\ ns[k].tag = "Nothing"
                         THEN Nothing(ns[k].n + 1) ELSE ns[k]]
         IN  IF InRange(ns, i + 1) /\ At(ns, i + 1).tag = "Nothing"
             THEN [ret |-> Unit, nodes |-> RemoveAt(grow, i)]
             ELSE IF i = 0 /\ oc THEN [ret |-> Panic, nodes |-> ns]
             ELSE IF InRange(ns, i - 1) /\ At(ns, i - 1).tag = "Nothing"
             THEN [ret |-> Unit, nodes |-> RemoveAt(grow, i)]
             ELSE [ret |-> Unit, nodes |-> SetAt(ns, i, Nothing(1))]

remove(ns, d, oc, i_) ==
    LET r == idx(ns, d, oc, i_) IN
    IF r = Panic THEN [ret |-> Panic, nodes |-> ns]
    ELSE IF r = None THEN [ret |-> Unit, nodes |-> ns]
    ELSE LET i == r.val IN
         IF InRange(ns, i + 1) /\ At(ns, i + 1).tag = "Nothing"
         THEN [ret |-> Unit,
               nodes |-> RemoveAt(SetAt(ns, i + 1, Nothing(At(ns, i + 1).n + 1)), i)]
         ELSE IF i = 0 /\ oc THEN [ret |-> Panic, nodes |-> ns]
         ELSE IF InRange(ns, i - 1) /\ At(ns, i - 1).tag = "Nothing"
         THEN [ret |-> Unit,
               nodes |-> RemoveAt(SetAt(ns, i - 1, Nothing(At(ns, i - 1).n + 1)), i)]
         ELSE [ret |-> Unit, nodes |-> SetAt(ns, i, Nothing(1))]

(***************************************************************************)
(* SparseTensorChunk::compress: the while loop, with its flag              *)
(* prev_was_nil, which the source sets only inside the merging branch.     *)
(***************************************************************************)
\* variant: prev_was_nil follows the node just passed
RECURSIVE compress_tracking(_, _, _)
compress_tracking(ns, n, prev_was_nil) ==
    IF ~(n < Len(ns)) THEN [ret |-> Unit, nodes |-> ns]
    ELSE LET k == nils(At(ns, n)) IN
         IF prev_was_nil /\ k # 0
         THEN LET cut == RemoveAt(ns, n) IN
              compress_tracking(SetAt(cut, n - 1, Nothing(At(cut, n - 1).n + k)), n, TRUE)
         ELSE compress_tracking(ns, n + 1, k # 0)

RECURSIVE compress_loop(_, _, _)
compress_loop(ns, n, prev_was_nil) ==
    IF ~(n < Len(ns)) THEN [ret |-> Unit, nodes |-> ns]
    ELSE LET k == nils(At(ns, n)) IN
         IF prev_was_nil /\ k # 0
         THEN LET cut == RemoveAt(ns, n) IN
              IF ~InRange(cut, n - 1) THEN [ret |-> Panic, nodes |-> cut]
              ELSE LET m == add_nils(At(cut, n - 1), k) IN
                   IF m = Panic THEN [ret |-> Panic, nodes |-> cut]
                   ELSE compress_loop(SetAt(cut, n - 1, m.val), n, TRUE)
         ELSE compress_loop(ns, n + 1, prev_was_nil)

compress(ns) == compress_loop(ns, 0, FALSE)

(***************************************************************************)
(* SparseTensorChunk::voxel and voxel_mut: the assert, then idx.           *)
(***************************************************************************)
InBounds(d, i) == i[1] < d[1] /\ i[2] < d[2] /\ i[3] < d[3]

\* variant: the assert compares with <= instead of <
voxel_loose(ns, d, oc, i) ==
    IF ~(i[1] <= d[1] /\ i[2] <= d[2] /\ i[3] <= d[3]) THEN Panic
    ELSE LET r == idx(ns, d, oc, i) IN
         IF r = Panic THEN Panic
         ELSE IF r = None THEN None
         ELSE node_voxel(At(ns, r.val))

voxel(ns, d, oc, i) ==
    IF ~InBounds(d, i) THEN Panic
    ELSE LET r == idx(ns, d, oc, i) IN
         IF r = Panic THEN Panic
         ELSE IF r = None THEN None
         ELSE node_voxel(At(ns, r.val))

voxel_mut(ns, d, oc, i) ==
    IF ~InBounds(d, i) THEN Panic
    ELSE LET r == idx(ns, d, oc, i) IN
         IF r = Panic THEN Panic
         ELSE IF r = None THEN None
         ELSE node_voxel(At(ns, r.val))

(***************************************************************************)
(* IntoIterator for &SparseTensorChunk: the payloads of the Voxel nodes,   *)
(* in sequence order.                                                      *)
(***************************************************************************)
RECURSIVE into_iter(_)
into_iter(ns) ==
    IF ns = <<>> THEN <<>>
    ELSE (IF Head(ns).tag = "Voxel" THEN <<Head(ns).v>> ELSE <<>>) \o into_iter(Tail(ns))

(***************************************************************************)
(* Placements.  A Mat4 is modelled by the translations with integer        *)
(* components: the matrix is its offset <<tx, ty, tz>>, IDENTITY is the    *)
(* zero offset, `m * n` adds the offsets and `m * v4(p)` moves p (w stays  *)
(* 1).  as_uvec3 is the saturating cast of f32 to u32: a negative          *)
(* component becomes 0.                                                    *)
(***************************************************************************)
mat_mul(m, n)   == <<m[1] + n[1], m[2] + n[2], m[3] + n[3]>>
mat_apply(m, p) == <<p[1] + m[1], p[2] + m[2], p[3] + m[3]>>
as_u32(x)       == IF x < 0 THEN 0 ELSE x
as_uvec3(v)     == <<as_u32(v[1]), as_u32(v[2]), as_u32(v[3])>>
vec_max(u, v)   == <<IF u[1] >= v[1] THEN u[1] ELSE v[1],
                     IF u[2] >= v[2] THEN u[2] ELSE v[2],
                     IF u[3] >= v[3] THEN u[3] ELSE v[3]>>

(***************************************************************************)
(* Inserting a list of (position, material) pairs in order, as the loops   *)
(* of From<Model> and combine do; the first panic ends the loop.           *)
(***************************************************************************)
\* variant: a position listed again keeps the material of its first entry
RECURSIVE insert_all_keep_first(_, _, _, _)
insert_all_keep_first(ns, d, oc, items) ==
    IF items = <<>> THEN [ret |-> Unit, nodes |-> ns]
    ELSE LET seen == idx(ns, d, oc, Head(items)[1])
             r    == IF seen # Panic /\ seen # None THEN [ret |-> Unit, nodes |-> ns]
                     ELSE insert(ns, d, oc, Head(items)[1], Some(Head(items)[2]))
         IN  IF r.ret = Panic THEN r
             ELSE insert_all_keep_first(r.nodes, d, oc, Tail(items))

RECURSIVE insert_all(_, _, _, _)
insert_all(ns, d, oc, items) ==
    IF items = <<>> THEN [ret |-> Unit, nodes |-> ns]
    ELSE LET r == insert(ns, d, oc, Head(items)[1], Some(Head(items)[2])) IN
         IF r.ret = Panic THEN r
         ELSE insert_all(r.nodes, d, oc, Tail(items))

(***************************************************************************)
(* impl From<Model> for SparseTensorChunk.  A Model is                     *)
(* [transform, positions, size]; its positions are Vec3, cast to u32.      *)
(***************************************************************************)
from(value, oc) ==
    LET temp  == nothing(value.size)
        items == [k \in 1..Len(value.positions) |->
                     <<as_uvec3(value.positions[k][1]), value.positions[k][2]>>]
        r     == insert_all(temp.nodes, temp.dim, oc, items)
    IN  IF r.ret = Panic THEN Panic
        ELSE LET z == compress(r.nodes) IN
             IF z.ret = Panic THEN Panic
             ELSE Some([nodes |-> z.nodes, dim |-> temp.dim,
                        transform |-> mat_mul(temp.transform, value.transform)])

(***************************************************************************)
(* combine(a, b).  Under a translation the w component of dim stays 1, so  *)
(* assert_eq!(dim[3], 1.) always passes.                                   *)
(***************************************************************************)
combine_map(t, items) ==
    [k \in 1..Len(items) |-> <<as_uvec3(mat_apply(t, items[k][1])), items[k][2]>>]

\* variant: the extent of the first operand alone
combine_dim_first(x, y) ==
    as_uvec3(mat_apply(x.transform, x.dim))

combine_dim(x, y) ==
    LET dim_a == mat_apply(x.transform, x.dim)
        dim_b == mat_apply(y.transform, y.dim)
    IN  as_uvec3(vec_max(dim_a, dim_b))

\* variant: both operands mapped with the first operand's placement
combine_items_one_placement(x, y) ==
    combine_map(x.transform, into_iter(x.nodes)) \o combine_map(x.transform, into_iter(y.nodes))

\* variant: the second operand's cells chained before the first operand's
combine_items_b_first(x, y) ==
    combine_map(y.transform, into_iter(y.nodes)) \o combine_map(x.transform, into_iter(x.nodes))

combine_items(x, y) ==
    combine_map(x.transform, into_iter(x.nodes)) \o combine_map(y.transform, into_iter(y.nodes))

\* variant: the result is compressed before it is returned
combine_compressed(x, y, oc) ==
    LET z == nothing(combine_dim(x, y))
        r == insert_all(z.nodes, z.dim, oc, combine_items(x, y))
    IN  IF r.ret = Panic THEN Panic
        ELSE Some([nodes |-> compress_tracking(r.nodes, 0, FALSE).nodes,
                   dim |-> z.dim, transform |-> z.transform])

combine(x, y, oc) ==
    LET z == nothing(combine_dim(x, y))
        r == insert_all(z.nodes, z.dim, oc, combine_items(x, y))
    IN  IF r.ret = Panic THEN Panic
        ELSE Some([nodes |-> r.nodes, dim |-> z.dim, transform |-> z.transform])

(***************************************************************************)
(* The volume as a state machine: a volume made by nothing(dim), then any  *)
(* calls of insert, remove, compress, voxel and voxel_mut.                 *)
(***************************************************************************)
Axis   == 0..MaxAxis
Dims   == {d \in Axis \X Axis \X Axis : product(d) <= MaxCells}
\* the coordinates a caller passes: in bounds, or past the extent by one
Coords == {i \in Axis \X Axis \X Axis : \A k \in 1..3 : i[k] <= dim[k]}
OptionMaterialId == {None} \cup {Some(m) : m \in MaterialId}

NoArgs == [i |-> ZERO, vox |-> None]

\* the parts of the program a specification does not exercise, as constructed:
\* Model::default(), a Brain at the origin with an empty route, SceneGraph::new()
NoModel  == inserted = {} /\ model = [transform |-> IDENTITY, positions |-> <<>>, size |-> ZERO]
NoBrain  == position = ZERO /\ route = <<>> /\ old_route = <<>>
NoGraph  == graph = <<None>> /\ old_graph = <<None>>
NoCombine == a = nothing(ZERO) /\ b = nothing(ZERO) /\ c = None

Init ==
    /\ dim \in Dims
    /\ nodes = nothing(dim).nodes
    /\ transform = nothing(dim).transform
    /\ overflow_checks \in BOOLEAN
    /\ call = [op |-> "nothing", i |-> NoArgs.i, vox |-> NoArgs.vox]
    /\ ret = Unit
    /\ old = nodes
    /\ chained = FALSE
    /\ NoCombine
    /\ NoModel
    /\ NoBrain
    /\ NoGraph

Running == ret # Panic

InsertCall(i, vox) ==
    /\ Running
    /\ LET r == insert(nodes, dim, overflow_checks, i, vox) IN
       /\ nodes' = r.nodes
       /\ ret' = r.ret
    /\ call' = [op |-> "insert", i |-> i, vox |-> vox]
    /\ old' = nodes
    /\ chained' = FALSE
    /\ UNCHANGED <<dim, transform, overflow_checks, a, b, c, others>>

RemoveCall(i) ==
    /\ Running
    /\ LET r == remove(nodes, dim, overflow_checks, i) IN
       /\ nodes' = r.nodes
       /\ ret' = r.ret
    /\ call' = [op |-> "remove", i |-> i, vox |-> NoArgs.vox]
    /\ old' = nodes
    /\ chained' = (call.op = "insert" /\ call.i = i /\ call.vox # None)
    /\ UNCHANGED <<dim, transform, overflow_checks, a, b, c, others>>

CompressCall ==
    /\ Running
    /\ LET r == compress(nodes) IN
       /\ nodes' = r.nodes
       /\ ret' = r.ret
    /\ call' = [op |-> "compress", i |-> NoArgs.i, vox |-> NoArgs.vox]
    /\ old' = nodes
    /\ chained' = FALSE
    /\ UNCHANGED <<dim, transform, overflow_checks, a, b, c, others>>

VoxelCall(i) ==
    /\ Running
    /\ ret' = voxel(nodes, dim, overflow_checks, i)
    /\ call' = [op |-> "voxel", i |-> i, vox |-> NoArgs.vox]
    /\ old' = nodes
    /\ chained' = FALSE
    /\ UNCHANGED <<nodes, dim, transform, overflow_checks, a, b, c, others>>

VoxelMutCall(i) ==
    /\ Running
    /\ ret' = voxel_mut(nodes, dim, overflow_checks, i)
    /\ call' = [op |-> "voxel_mut", i |-> i, vox |-> NoArgs.vox]
    /\ old' = nodes
    /\ chained' = FALSE
    /\ UNCHANGED <<nodes, dim, transform, overflow_checks, a, b, c, others>>

Next ==
    \/ \E i \in Coords, vox \in OptionMaterialId : InsertCall(i, vox)
    \/ \E i \in Coords : RemoveCall(i)
    \/ CompressCall
    \/ \E i \in Coords : VoxelCall(i)
    \/ \E i \in Coords : VoxelMutCall(i)

Spec == Init /\ [][Next]_vars

(***************************************************************************)
(* combine as the world builder uses it (game.rs, terrain.rs): two volumes *)
(* built from models, each given a placement, then combined.               *)
(***************************************************************************)
MaxCombineCells == 2    \* an operand of combine has at most MaxCombineCells cells
MaxShift        == 1    \* a placement moves by at most MaxShift cells in all

Abs(x) == IF x < 0 THEN 0 - x ELSE x
Shifts == {t \in (0 - MaxShift..MaxShift) \X (0 - MaxShift..MaxShift) \X (0 - MaxShift..MaxShift) :
              Abs(t[1]) + Abs(t[2]) + Abs(t[3]) <= MaxShift}
CombineDims == {d \in Dims : product(d) >= 1 /\ product(d) <= MaxCombineCells} \cup {ZERO}

\* the cells of an extent, in ascending address order
CellAt(d, k) == <<k % d[1], (k \div d[1]) % d[2], k \div (d[1] * d[2])>>

\* the position lists of the models of extent d: every cell listed at most once
RECURSIVE Listing(_, _, _)
Listing(d, f, k) ==
    IF k >= product(d) THEN <<>>
    ELSE (IF f[k] = None THEN <<>> ELSE <<<<CellAt(d, k), f[k].val>>>>) \o Listing(d, f, k + 1)

Models == {[transform |-> IDENTITY, positions |-> Listing(d, f, 0), size |-> d] :
              d \in CombineDims, f \in [0..MaxCombineCells - 1 -> OptionMaterialId]}

Placed(m, t, oc) == [from(m, oc).val EXCEPT !.transform = mat_mul(@, t)]

InitCombine ==
    /\ overflow_checks \in BOOLEAN
    /\ \E ma \in Models, ta \in Shifts : a = Placed(ma, ta, overflow_checks)
    /\ \E mb \in Models, tb \in Shifts : b = Placed(mb, tb, overflow_checks)
    /\ c = None
    /\ dim = ZERO
    /\ nodes = nothing(dim).nodes
    /\ transform = nothing(dim).transform
    /\ call = [op |-> "from", i |-> NoArgs.i, vox |-> NoArgs.vox]
    /\ ret = Unit
    /\ old = nodes
    /\ chained = FALSE
    /\ NoModel
    /\ NoBrain
    /\ NoGraph

CombineCall ==
    /\ call.op = "from"
    /\ c' = combine(a, b, overflow_checks)
    /\ ret' = c'
    /\ call' = [op |-> "combine", i |-> NoArgs.i, vox |-> NoArgs.vox]
    /\ UNCHANGED <<nodes, dim, transform, overflow_checks, old, chained, a, b, others>>

NextCombine == CombineCall

SpecCombine == InitCombine /\ [][NextCombine]_vars

(***************************************************************************)
(* Properties of the volume (specification Spec).                          *)
(***************************************************************************)
Cells == {i \in Coords : InBounds(dim, i)}
Mutations == {"insert", "remove", "compress"}

RECURSIVE CellSum(_)
CellSum(ns) ==
    IF ns = <<>> THEN 0
    ELSE (IF Head(ns).tag = "Nothing" THEN Head(ns).n ELSE 1) + CellSum(Tail(ns))

AdjacentNothing(ns) ==
    \E k \in 1..Len(ns) - 1 : ns[k].tag = "Nothing" /\ ns[k + 1].tag = "Nothing"

Lookup(ns, i) == voxel(ns, dim, overflow_checks, i)

\* C1 (as claimed): for an in-bounds coordinate c and a material m, insert(c, Some(m))
\* completes and voxel(c) then returns m; a remove(c) called right after it completes
\* and voxel(c) then returns nothing.
C1_RoundTrip ==
    /\ (call.op = "insert" /\ call.vox # None /\ call.i \in Cells)
          => /\ ret = Unit
             /\ Lookup(nodes, call.i).kind = "some"
             /\ Lookup(nodes, call.i).val[2] = call.vox.val
    /\ (call.op = "remove" /\ chained /\ call.i \in Cells)
          => /\ ret = Unit
             /\ Lookup(nodes, call.i) = None

\* C2: after every completed insert, remove or compress on a volume made by
\* nothing(dim), the cells covered by the segments (n for Nothing(n), 1 for a Voxel)
\* add up to dim.x * dim.y * dim.z.
C2_CellCount ==
    (call.op \in Mutations /\ ret = Unit) => CellSum(nodes) = product(dim)

C2_Witness ==
    /\ call.op = "remove"
    /\ ret = Unit
    /\ Len(nodes) < Len(old)
    /\ \E k \in 1..Len(nodes) : nodes[k].tag = "Nothing" /\ nodes[k].n > 1
    /\ \E k \in 1..Len(nodes) : nodes[k].tag = "Voxel"

\* C3 (as claimed): insert and remove called with a coordinate that has a component
\* greater than or equal to the extent on that axis panic and leave every segment as
\* it was.
C3_MutationBounds ==
    (call.op \in {"insert", "remove"} /\ ~InBounds(dim, call.i))
        => (ret = Panic /\ nodes = old)

\* C4: voxel(c) and voxel_mut(c) panic for every coordinate c that has a component
\* greater than or equal to the extent on that axis, in every state of the volume and
\* for every extent, an extent with a zero component included.
C4_LookupBounds ==
    /\ \A i \in Coords : ~InBounds(dim, i) =>
          /\ voxel(nodes, dim, overflow_checks, i) = Panic
          /\ voxel_mut(nodes, dim, overflow_checks, i) = Panic
    /\ (call.op \in {"voxel", "voxel_mut"} /\ ~InBounds(dim, call.i)) => ret = Panic

C4_Witness ==
    /\ call.op = "voxel"
    /\ ~InBounds(dim, call.i)
    /\ product(dim) = 0
    /\ near_idx(old, dim, overflow_checks, call.i) # Panic
    /\ ret = Panic

\* C5 (as claimed): right after compress() returns no two Nothing segments are
\* adjacent in the sequence.
C5_Canonical ==
    (call.op = "compress" /\ ret = Unit) => ~AdjacentNothing(nodes)

\* C6: compress() completes; applying it again gives the same segment sequence; it
\* changes neither voxel(c) for any in-bounds c nor the sequence of (coordinate,
\* material) pairs of the iteration.
C6_CompressPreserves ==
    call.op = "compress" =>
        /\ ret = Unit
        /\ compress(nodes) = [ret |-> Unit, nodes |-> nodes]
        /\ \A i \in Cells : Lookup(nodes, i) = Lookup(old, i)
        /\ into_iter(nodes) = into_iter(old)

C6_Witness ==
    /\ call.op = "compress"
    /\ ret = Unit
    /\ AdjacentNothing(old)
    /\ \E k \in 1..Len(old) : old[k].tag = "Voxel"

(***************************************************************************)
(* Properties of combine (specification SpecCombine).                      *)
(***************************************************************************)
CellsOf(d)       == {p \in Axis \X Axis \X Axis : InBounds(d, p)}
Occupied(x)      == {p \in CellsOf(x.dim) : voxel(x.nodes, x.dim, overflow_checks, p) # None}
MaterialAt(x, p) == voxel(x.nodes, x.dim, overflow_checks, p).val[2]
Shared(x, p)     == <<p[1] + x.transform[1], p[2] + x.transform[2], p[3] + x.transform[3]>>
Images(x)        == {Shared(x, p) : p \in Occupied(x)}
NonNegative(v)   == v[1] >= 0 /\ v[2] >= 0 /\ v[3] >= 0
Largest(S)       == CHOOSE x \in S : \A y \in S : y <= x
\* the cells of the result: its extent can exceed MaxAxis
ResultCells(x)   == {p \in (0..x.dim[1]) \X (0..x.dim[2]) \X (0..x.dim[3]) : InBounds(x.dim, p)}
ResultOccupied(x) ==
    {p \in ResultCells(x) : voxel(x.nodes, x.dim, overflow_checks, p) # None}

\* C7: for operands placed by translations without a negative component, combine(a, b)
\* completes, the occupied coordinates of the result are exactly the moved occupied
\* coordinates of a and of b, and a coordinate only one operand occupies carries that
\* operand's material.
C7_CombineUnion ==
    (call.op = "combine" /\ NonNegative(a.transform) /\ NonNegative(b.transform)) =>
        /\ c # Panic
        /\ ResultOccupied(c.val) = Images(a) \cup Images(b)
        /\ \A p \in Occupied(a) : Shared(a, p) \notin Images(b) =>
              MaterialAt(c.val, Shared(a, p)) = MaterialAt(a, p)
        /\ \A p \in Occupied(b) : Shared(b, p) \notin Images(a) =>
              MaterialAt(c.val, Shared(b, p)) = MaterialAt(b, p)

C7_Witness ==
    /\ call.op = "combine"
    /\ a.dim = <<2, 1, 1>> /\ a.transform = IDENTITY /\ into_iter(a.nodes) = <<<<ZERO, 0>>>>
    /\ b.dim = <<2, 1, 1>> /\ b.transform = <<1, 0, 0>> /\ into_iter(b.nodes) = <<<<ZERO, 1>>>>
    /\ c # Panic
    /\ ResultOccupied(c.val) = {<<0, 0, 0>>, <<1, 0, 0>>}
    /\ MaterialAt(c.val, <<0, 0, 0>>) = 0
    /\ MaterialAt(c.val, <<1, 0, 0>>) = 1

\* C8: whenever an occupied cell of a and an occupied cell of b move to the same
\* coordinate of the shared frame, combine(a, b) completes and the result holds b's
\* material at that coordinate.
C8_LastWriteWins ==
    call.op = "combine" =>
        \A p \in Occupied(a), q \in Occupied(b) :
            (Shared(a, p) = Shared(b, q) /\ NonNegative(Shared(b, q))) =>
                /\ c # Panic
                /\ Shared(b, q) \in ResultOccupied(c.val)
                /\ MaterialAt(c.val, Shared(b, q)) = MaterialAt(b, q)

C8_Witness ==
    /\ call.op = "combine"
    /\ c # Panic
    /\ \E p \in Occupied(a), q \in Occupied(b) :
          /\ Shared(a, p) = <<2, 0, 0>>
          /\ Shared(b, q) = <<2, 0, 0>>
          /\ MaterialAt(a, p) # MaterialAt(b, q)
          /\ MaterialAt(c.val, <<2, 0, 0>>) = MaterialAt(b, q)

\* C9 (as claimed): the extent of combine(a, b) is, on every axis, the largest moved
\* occupied coordinate of a and b plus one, and the result has the identity placement
\* (stated where every moved coordinate is an unsigned grid index).
C9_ExtentByVoxels ==
    (/\ call.op = "combine" /\ c # Panic
     /\ NonNegative(a.transform) /\ NonNegative(b.transform)
     /\ Images(a) \cup Images(b) # {}) =>
        /\ \A k \in 1..3 :
              c.val.dim[k] = Largest({q[k] + 1 : q \in Images(a) \cup Images(b)})
        /\ c.val.transform = IDENTITY

\* C9 (amended): the extent of combine(a, b) is, on every axis, the larger of the two
\* operands' extents, each moved by its operand's placement (a negative value counts
\* as 0); every moved occupied coordinate lies below it, and the result has the
\* identity placement.
C9_ExtentByExtents ==
    (call.op = "combine" /\ c # Panic) =>
        /\ \A k \in 1..3 :
              c.val.dim[k] = Largest({0, a.dim[k] + a.transform[k], b.dim[k] + b.transform[k]})
        /\ \A q \in Images(a) \cup Images(b) : \A k \in 1..3 : q[k] + 1 <= c.val.dim[k]
        /\ c.val.transform = IDENTITY

C9_Witness ==
    /\ call.op = "combine"
    /\ c # Panic
    /\ Images(a) # {} /\ Images(b) # {}
    /\ a.transform # b.transform
    /\ \E k \in 1..3 :
          c.val.dim[k] > Largest({q[k] + 1 : q \in Images(a) \cup Images(b)})

\* C10 (as claimed): when the placement of an operand moves one of its occupied cells
\* to a coordinate with a negative component, combine(a, b) panics.
C10_NegativeFails ==
    (call.op = "combine" /\ \E q \in Images(a) \cup Images(b) : ~NonNegative(q))
        => c = Panic

(***************************************************************************)
(* A volume filled by inserts alone (specification SpecInserts): a volume  *)
(* made by nothing(dim), then insert(c, Some(m)) with in-bounds            *)
(* coordinates that are pairwise distinct.                                 *)
(***************************************************************************)
InsertDistinctCall(i, m) ==
    /\ Running
    /\ InBounds(dim, i)
    /\ i \notin inserted
    /\ LET r == insert(nodes, dim, overflow_checks, i, Some(m)) IN
       /\ nodes' = r.nodes
       /\ ret' = r.ret
    /\ call' = [op |-> "insert", i |-> i, vox |-> Some(m)]
    /\ old' = nodes
    /\ chained' = FALSE
    /\ inserted' = inserted \cup {i}
    /\ UNCHANGED <<dim, transform, overflow_checks, a, b, c,
                   model, position, route, old_route, graph, old_graph>>

NextInserts == \E i \in Coords, m \in MaterialId : InsertDistinctCall(i, m)

SpecInserts == Init /\ [][NextInserts]_vars

\* C11: after any sequence of insert(c_i, Some(m_i)) with pairwise distinct in-bounds
\* coordinates on a volume made by nothing(dim), every call has completed and the
\* iteration yields as many cells as coordinates were inserted (and exactly those).
C11_Conservation ==
    inserted # {} =>
        /\ ret = Unit
        /\ Len(into_iter(nodes)) = Cardinality(inserted)
        /\ {into_iter(nodes)[k][1] : k \in 1..Len(into_iter(nodes))} = inserted

C11_Witness ==
    /\ Cardinality(inserted) = 3
    /\ call.op = "insert" /\ call.i = ZERO
    /\ ret = Unit
    /\ Len(into_iter(nodes)) = 3

(***************************************************************************)
(* Building a volume from a model (specification SpecFrom): a Model whose  *)
(* positions are in bounds, listed in any order and possibly more than     *)
(* once, handed to SparseTensorChunk::from.                                *)
(***************************************************************************)
MaxPositions == 3    \* a model lists at most MaxPositions voxels

PositionLists(d) ==
    UNION {[1..n -> CellsOf(d) \X MaterialId] : n \in 0..MaxPositions}

InitFrom ==
    /\ overflow_checks \in BOOLEAN
    /\ \E d \in Dims : \E ps \in PositionLists(d) :
          model = [transform |-> IDENTITY, positions |-> ps, size |-> d]
    /\ inserted = {}
    /\ dim = ZERO
    /\ nodes = nothing(dim).nodes
    /\ transform = nothing(dim).transform
    /\ call = [op |-> "model", i |-> NoArgs.i, vox |-> NoArgs.vox]
    /\ ret = Unit
    /\ old = nodes
    /\ chained = FALSE
    /\ NoCombine
    /\ NoBrain
    /\ NoGraph

FromCall ==
    /\ call.op = "model"
    /\ LET r == from(model, overflow_checks) IN
       IF r = Panic
       THEN /\ ret' = Panic
            /\ UNCHANGED <<nodes, dim, transform>>
       ELSE /\ ret' = Unit
            /\ nodes' = r.val.nodes
            /\ dim' = r.val.dim
            /\ transform' = r.val.transform
    /\ call' = [op |-> "from_model", i |-> NoArgs.i, vox |-> NoArgs.vox]
    /\ old' = nodes
    /\ UNCHANGED <<overflow_checks, chained, a, b, c, others>>

NextFrom == FromCall

SpecFrom == InitFrom /\ [][NextFrom]_vars

\* the entries of the model's list that name the cell p
Entries(p) == {k \in 1..Len(model.positions) : model.positions[k][1] = p}

\* C14: for a model whose positions are all in bounds, SparseTensorChunk::from(model)
\* completes and voxel(c) of the volume is, for every in-bounds c, the material of
\* the last list entry that names c, and nothing when no entry names c.
C14_FromAgreesWithMap ==
    call.op = "from_model" =>
        /\ ret = Unit
        /\ dim = model.size
        /\ \A p \in CellsOf(dim) :
              IF Entries(p) = {} THEN Lookup(nodes, p) = None
              ELSE /\ Lookup(nodes, p).kind = "some"
                   /\ Lookup(nodes, p).val[2] = model.positions[Largest(Entries(p))][2]

C14_Witness ==
    /\ call.op = "from_model"
    /\ ret = Unit
    /\ Len(model.positions) = 3
    /\ model.positions[1][1] = model.positions[3][1]
    /\ model.positions[1][2] # model.positions[3][2]
    /\ model.positions[2][1] # model.positions[1][1]
    /\ Lookup(nodes, model.positions[1][1]).val[2] = model.positions[3][2]

(***************************************************************************)
(* Further properties of the volume (specification Spec).                  *)
(***************************************************************************)
Address(i)       == i[1] + i[2] * dim[1] + i[3] * dim[1] * dim[2]
\* nothing(dim) after one insert(p, Some(m))
FreshWith(p, m)  == SetAt(nothing(dim).nodes, Address(p), Voxel(p, m))
\* the cells covered by the segments before segment k (0-based)
Covered(ns, k)   == CellSum(SubSeq(ns, 1, k))
\* the segment that contains the address: Covered(k) <= address < Covered(k + 1)
Containing(ns, address) ==
    CHOOSE k \in 0..Len(ns) - 1 : Covered(ns, k) <= address /\ address < Covered(ns, k + 1)

\* C12: on a volume made by nothing(dim), for two different in-bounds coordinates
\* c and d: insert(c, Some(m)) completes, voxel(c) then returns m and voxel(d)
\* returns nothing; a remove(c) called right after it completes and voxel(c) then
\* returns nothing.
C12_SingleVoxel ==
    /\ (/\ call.op = "insert" /\ call.vox # None /\ call.i \in Cells
        /\ old = nothing(dim).nodes
        /\ Cells \ {call.i} # {}) =>
           /\ ret = Unit
           /\ Lookup(nodes, call.i).kind = "some"
           /\ Lookup(nodes, call.i).val[2] = call.vox.val
           /\ \A d \in Cells \ {call.i} : Lookup(nodes, d) = None
    /\ (/\ call.op = "remove" /\ chained /\ call.i \in Cells
        /\ \E m \in MaterialId : old = FreshWith(call.i, m)
        /\ Cells \ {call.i} # {}) =>
           /\ ret = Unit
           /\ Lookup(nodes, call.i) = None

C12_Witness ==
    /\ call.op = "remove" /\ chained
    /\ dim = <<1, 3, 1>> /\ call.i = <<0, 2, 0>>
    /\ old = FreshWith(call.i, 1)
    /\ ret = Unit
    /\ nodes = <<Nothing(1), Nothing(2)>>
    /\ Lookup(nodes, call.i) = None

\* the iteration the volume's segments decode to: for every Voxel segment, in
\* sequence order, the cell at its cumulative address with the segment's material
Decoded(ns) ==
    LET ks == {k \in 1..Len(ns) : ns[k].tag = "Voxel"}
        nth[n \in 0..Cardinality(ks)] ==
            IF n = 0 THEN 0
            ELSE CHOOSE k \in ks : Cardinality({j \in ks : j < k}) = n - 1
    IN  [n \in 1..Cardinality(ks) |-> <<CellAt(dim, Covered(ns, nth[n] - 1)), ns[nth[n]].v[2]>>]

\* C13 (as claimed): in every state of the volume the iteration yields every occupied
\* cell once, with its material, and nothing for the empty runs, and the addresses
\* of the yielded coordinates ascend strictly.
C13_IterationOrder ==
    LET it == into_iter(nodes) IN
    /\ it = Decoded(nodes)
    /\ \A k \in 1..Len(it) - 1 : Address(it[k][1]) < Address(it[k + 1][1])

\* C15: an insert or a remove that panics leaves the segments as they were when the
\* call started, so they still cover dim.x * dim.y * dim.z cells.
C15_NoPartialState ==
    (call.op \in {"insert", "remove"} /\ ret = Panic) =>
        /\ nodes = old
        /\ CellSum(nodes) = product(dim)

C15_Witness ==
    /\ call.op = "insert"
    /\ ret = Panic
    /\ insert_failure(old, dim, overflow_checks, call.i) =
          "Cannot insert space slot containing multiple empty voxels"
    /\ \E k \in 1..Len(old) : old[k].tag = "Voxel"
    /\ nodes = old

\* C16 (as claimed): insert(c, _) panics with 'multiple empty voxels' exactly when c
\* is in bounds and the segment that contains c's address is a Nothing(n) with n > 1;
\* an in-bounds c never panics with 'out of bounds'.
C16_IllegalInsert ==
    call.op = "insert" =>
        LET failure == insert_failure(old, dim, overflow_checks, call.i) IN
        /\ (failure = "Cannot insert space slot containing multiple empty voxels")
              <=> /\ InBounds(dim, call.i)
                  /\ At(old, Containing(old, Address(call.i))).tag = "Nothing"
                  /\ At(old, Containing(old, Address(call.i))).n > 1
        /\ InBounds(dim, call.i) => failure # "out of bounds"

(***************************************************************************)
(* Further properties of combine (specification SpecCombine).              *)
(***************************************************************************)
\* C17: the volume combine(a, b) returns has only segments of one cell, Nothing(1)
\* or Voxel, so it has as many segments as its extent has cells.
C17_NoCompress ==
    (call.op = "combine" /\ c # Panic) =>
        /\ \A k \in 1..Len(c.val.nodes) :
              c.val.nodes[k] = Nothing(1) \/ c.val.nodes[k].tag = "Voxel"
        /\ Len(c.val.nodes) = product(c.val.dim)

C17_Witness ==
    /\ call.op = "combine"
    /\ c # Panic
    /\ AdjacentNothing(c.val.nodes)
    /\ \E k \in 1..Len(c.val.nodes) : c.val.nodes[k].tag = "Voxel"
    /\ Len(c.val.nodes) = 3

(***************************************************************************)
(* Brain::append_destination (src/src/ai.rs): a breadth-first search over  *)
(* the x/z neighbours of IVec3 points.  `reached` is the HashMap from a    *)
(* point to the points walked to get there, `next_up` the VecDeque.        *)
(***************************************************************************)
dirs == <<<<1, 0, 0>>, <<-1, 0, 0>>, <<0, 0, 1>>, <<0, 0, -1>>>>

ivec_add(p, n) == <<p[1] + n[1], p[2] + n[2], p[3] + n[3]>>
ivec_min(u, v) == <<IF u[1] <= v[1] THEN u[1] ELSE v[1],
                    IF u[2] <= v[2] THEN u[2] ELSE v[2],
                    IF u[3] <= v[3] THEN u[3] ELSE v[3]>>
\* IVec3::clamp(min, max) = self.max(min).min(max)
ivec_clamp(v, lo, hi) == ivec_min(vec_max(v, lo), hi)

\* the `for n in dirs` loop from direction k on
RECURSIVE visit(_, _, _, _, _, _, _)
visit(reached, next_up, p, k, ns, d, oc) ==
    IF k > Len(dirs) THEN Some([reached |-> reached, next_up |-> next_up])
    ELSE LET q == ivec_add(p, dirs[k]) IN
         IF q \in DOMAIN reached
            \/ ivec_clamp(q, ZERO, ivec_add(d, <<-1, -1, -1>>)) # q
         THEN visit(reached, next_up, p, k + 1, ns, d, oc)
         ELSE LET v == voxel(ns, d, oc, as_uvec3(q)) IN
              IF v = Panic THEN Panic
              ELSE IF v # None THEN visit(reached, next_up, p, k + 1, ns, d, oc)
              ELSE visit(reached @@ (q :> Append(reached[p], p)),
                         Append(next_up, q), p, k + 1, ns, d, oc)

\* the `loop`: Panic is unreachable!() on an empty queue (or a panic of voxel),
\* Some(ret) the points the call appends to the route
RECURSIVE search(_, _, _, _, _, _)
search(reached, next_up, dest, ns, d, oc) ==
    IF next_up = <<>> THEN Panic
    ELSE LET p == Head(next_up) IN
         IF as_uvec3(p) = dest
         THEN Some([k \in 1..Len(reached[p]) + 1 |->
                       as_uvec3(Append(reached[p], dest)[k])])
         ELSE LET r == visit(reached, Tail(next_up), p, 1, ns, d, oc) IN
              IF r = Panic THEN Panic
              ELSE search(r.val.reached, r.val.next_up, dest, ns, d, oc)

append_destination(pos, rt, dest, ns, d, oc) ==
    LET r == search((pos :> <<>>), <<pos>>, dest, ns, d, oc) IN
    IF r = Panic THEN [ret |-> Panic, route |-> rt]
    ELSE [ret |-> Unit, route |-> rt \o r.val]

\* Brain::pop_move: Vec::pop takes the last point; None on an empty route
pop_move(pos, rt) ==
    IF rt = <<>> THEN [ret |-> None, route |-> rt]
    ELSE LET point == rt[Len(rt)] IN
         [ret   |-> Some(<<pos[1] - point[1], pos[2] - point[2], pos[3] - point[3]>>),
          route |-> SubSeq(rt, 1, Len(rt) - 1)]

(***************************************************************************)
(* The brain as a state machine (specification SpecBrain): a scene built   *)
(* from a model of walls, from which one wall may have been removed again, *)
(* a brain placed on one of its cells with an empty route, then calls of   *)
(* append_destination.                                                     *)
(***************************************************************************)
MaxGrid      == 3    \* the scene of a brain spans 1..MaxGrid cells along x and along z
MaxLevels    == 2    \* and 1..MaxLevels cells along y
MaxGridCells == 6    \* and has at most MaxGridCells cells
MaxWalls     == 2    \* of which at most MaxWalls hold a voxel
MaxRoute     == 2    \* append_destination is called while the route has at most MaxRoute points

GridDims == {d \in (1..MaxGrid) \X (1..MaxLevels) \X (1..MaxGrid) : product(d) <= MaxGridCells}
GridCells(d) == {p \in (0..MaxGrid) \X (0..MaxLevels) \X (0..MaxGrid) : InBounds(d, p)}
Walls(d) == {f \in [0..product(d) - 1 -> {None, Some(0)}] :
                Cardinality({k \in DOMAIN f : f[k] # None}) <= MaxWalls}

\* the scenes: From<Model> of the walls, and that volume after one remove of a wall
Scenes(d, oc) ==
    LET built == {from([transform |-> IDENTITY, positions |-> Listing(d, f, 0), size |-> d], oc).val.nodes :
                     f \in Walls(d)}
    IN  built \cup {remove(ns, d, oc, p).nodes : ns \in built, p \in GridCells(d)}

InitBrain ==
    /\ overflow_checks \in BOOLEAN
    /\ dim \in GridDims
    /\ nodes \in Scenes(dim, overflow_checks)
    /\ transform = IDENTITY
    /\ position \in GridCells(dim)
    /\ route = <<>>
    /\ old_route = <<>>
    /\ call = [op |-> "brain", i |-> NoArgs.i, vox |-> NoArgs.vox]
    /\ ret = Unit
    /\ old = nodes
    /\ chained = FALSE
    /\ NoCombine
    /\ NoModel
    /\ NoGraph

AppendDestinationCall(dest) ==
    /\ Running
    /\ Len(route) <= MaxRoute
    /\ LET r == append_destination(position, route, dest, nodes, dim, overflow_checks) IN
       /\ route' = r.route
       /\ ret' = r.ret
    /\ old_route' = route
    /\ call' = [op |-> "append_destination", i |-> dest, vox |-> NoArgs.vox]
    /\ UNCHANGED <<nodes, dim, transform, overflow_checks, old, chained, a, b, c,
                   inserted, model, position, graph, old_graph>>

PopMoveCall ==
    /\ Running
    /\ LET r == pop_move(position, route) IN
       /\ route' = r.route
       /\ ret' = r.ret
    /\ old_route' = route
    /\ call' = [op |-> "pop_move", i |-> NoArgs.i, vox |-> NoArgs.vox]
    /\ UNCHANGED <<nodes, dim, transform, overflow_checks, old, chained, a, b, c,
                   inserted, model, position, graph, old_graph>>

NextBrain ==
    \/ \E dest \in GridCells(dim) : AppendDestinationCall(dest)
    \/ PopMoveCall

SpecBrain == InitBrain /\ [][NextBrain]_vars

(***************************************************************************)
(* Properties of the brain (specification SpecBrain).                      *)
(***************************************************************************)
\* the cells the scene's segments occupy, by their cumulative addresses
OccupiedCells == {CellAt(dim, Covered(nodes, k - 1)) : k \in {j \in 1..Len(nodes) : nodes[j].tag = "Voxel"}}
FreeCells     == GridCells(dim) \ OccupiedCells
\* one unit along x or along z
Stride(p, q)  == /\ p[2] = q[2]
                 /\ Abs(p[1] - q[1]) + Abs(p[3] - q[3]) = 1
Around(S)     == S \cup {q \in FreeCells : \E p \in S : Stride(p, q)}

RECURSIVE Reachable(_)
Reachable(S) == IF Around(S) = S THEN S ELSE Reachable(Around(S))

\* the number of steps of a shortest path from a cell of S to t (t reachable from S)
RECURSIVE Steps(_, _)
Steps(S, t) == IF t \in S THEN 0 ELSE 1 + Steps(Around(S), t)

PathExists(s, t) == s \in FreeCells /\ t \in Reachable({s})

Appended == SubSeq(route, Len(old_route) + 1, Len(route))

\* C18 (as claimed): when a path of unoccupied in-bounds cells leads from the brain's
\* position to dest, append_destination returns (its loop takes a point off a finite
\* queue on every turn, so it returns unless it ends in a panic) and has appended to
\* the route points that start at the position, end at dest, move one unit along x or
\* z at a time, are all unoccupied cells of the scene, and are as few as possible.
C18_PathPlanning ==
    (call.op = "append_destination" /\ PathExists(position, call.i)) =>
        /\ ret = Unit
        /\ SubSeq(route, 1, Len(old_route)) = old_route
        /\ Len(Appended) >= 1
        /\ Appended[1] = position
        /\ Appended[Len(Appended)] = call.i
        /\ \A k \in 1..Len(Appended) - 1 : Stride(Appended[k], Appended[k + 1])
        /\ \A k \in 1..Len(Appended) : Appended[k] \in FreeCells
        /\ Len(Appended) - 1 = Steps({position}, call.i)

\* the same for the scenes whose segments are all single cells
C18_OnSingleCells == Len(nodes) = product(dim) => C18_PathPlanning

(***************************************************************************)
(* SceneGraph (src/src/scene.rs).  The Mat4 of an entity is modelled by    *)
(* the maps x |-> s * x + t of one axis, written <<s, t>>: their product,  *)
(* like the product of matrices, does not commute.  An Entity is its       *)
(* transform; Light, Object and Camera all carry one.                      *)
(***************************************************************************)
affine_mul(m, n) == <<m[1] * n[1], m[1] * n[2] + m[2]>>

Entity(t) == [transform |-> t]

\* SceneNode::new
SceneNode(entity, parent) ==
    [parent |-> parent, base_entity |-> entity, mutated_entity |-> entity]

\* variant: the parent's transform is multiplied on the right
evaluate_parent_on_right(node, parent) ==
    LET trans     == node.base_entity.transform
        new_trans == IF parent # None
                     THEN affine_mul(trans, parent.val.mutated_entity.transform)
                     ELSE trans
    IN  [node EXCEPT !.mutated_entity.transform = new_trans]

\* SceneNode::evaluate
evaluate(node, parent) ==
    LET trans     == node.base_entity.transform
        new_trans == IF parent # None
                     THEN affine_mul(parent.val.mutated_entity.transform, trans)
                     ELSE trans
    IN  [node EXCEPT !.mutated_entity.transform = new_trans]

\* SceneGraph::insert_entity: the new nodes and the id returned
insert_entity(g, entity, parent) ==
    [graph |-> Append(g, Some(SceneNode(entity, parent))), id |-> Len(g)]

\* SceneGraph::remove_entity: the slot of id, then every node whose parent is id
remove_entity(g, id) ==
    LET taken == SetAt(g, id, None) IN
    [k \in 1..Len(taken) |->
        IF taken[k] # None /\ taken[k].val.parent = id THEN None ELSE taken[k]]

\* SceneGraph::entity_mut followed by the caller's write to the transform
entity_mut(g, id, t) ==
    IF At(g, id) = None THEN g
    ELSE SetAt(g, id, Some([At(g, id).val EXCEPT !.base_entity.transform = t]))

\* SceneGraph::evaluate_all: the loop from slot n on
RECURSIVE evaluate_all_from(_, _)
evaluate_all_from(g, n) ==
    IF n >= Len(g) THEN g
    ELSE IF At(g, n) = None THEN evaluate_all_from(g, n + 1)
    ELSE LET parent == At(g, At(g, n).val.parent) IN
         evaluate_all_from(SetAt(g, n, Some(evaluate(At(g, n).val, parent))), n + 1)

evaluate_all(g) == evaluate_all_from(g, 0)

(***************************************************************************)
(* The scene graph as a state machine (specification SpecGraph):           *)
(* SceneGraph::new(), then insert_entity under any id handed out so far,   *)
(* remove_entity, edits of a base transform and evaluate_all.              *)
(***************************************************************************)
MaxEntities == 3    \* insert_entity is called at most MaxEntities times

Placements == {<<1, 1>>, <<-1, 0>>}
Ids        == 0..Len(graph) - 1

InitGraph ==
    /\ graph = <<None>>
    /\ old_graph = graph
    /\ overflow_checks \in BOOLEAN
    /\ dim = ZERO
    /\ nodes = nothing(dim).nodes
    /\ transform = nothing(dim).transform
    /\ call = [op |-> "new", i |-> 0, vox |-> NoArgs.vox]
    /\ ret = Unit
    /\ old = nodes
    /\ chained = FALSE
    /\ NoCombine
    /\ NoModel
    /\ NoBrain

GraphCall(op, id, g, r) ==
    /\ graph' = g
    /\ old_graph' = graph
    /\ call' = [op |-> op, i |-> id, vox |-> NoArgs.vox]
    /\ ret' = r
    /\ UNCHANGED <<nodes, dim, transform, overflow_checks, old, chained, a, b, c,
                   inserted, model, position, route, old_route>>

InsertEntityCall(t, parent) ==
    /\ Len(graph) <= MaxEntities
    /\ LET r == insert_entity(graph, Entity(t), parent) IN
       GraphCall("insert_entity", parent, r.graph, Some(r.id))

RemoveEntityCall(id) ==
    GraphCall("remove_entity", id, remove_entity(graph, id), Unit)

EntityMutCall(id, t) ==
    GraphCall("entity_mut", id, entity_mut(graph, id, t),
              IF At(graph, id) = None THEN None ELSE Some(t))

EvaluateAllCall ==
    GraphCall("evaluate_all", 0, evaluate_all(graph), Unit)

NextGraph ==
    \/ \E t \in Placements, parent \in Ids : InsertEntityCall(t, parent)
    \/ \E id \in Ids : RemoveEntityCall(id)
    \/ \E id \in Ids, t \in Placements : EntityMutCall(id, t)
    \/ EvaluateAllCall

SpecGraph == InitGraph /\ [][NextGraph]_vars

(***************************************************************************)
(* Properties of the scene graph (specification SpecGraph).                *)
(***************************************************************************)
Live(g)      == {n \in 0..Len(g) - 1 : At(g, n) # None}
Parent(g, n) == At(g, n).val.parent
Base(g, n)   == At(g, n).val.base_entity.transform
Mutated(g, n) == At(g, n).val.mutated_entity.transform

\* n is a node of g nested under id, at any depth
RECURSIVE Under(_, _, _)
Under(g, n, id) ==
    /\ At(g, n) # None
    /\ \/ Parent(g, n) = id
       \/ Under(g, Parent(g, n), id)

\* C19: right after evaluate_all, the evaluated transform of every live node is the
\* evaluated transform of its parent times the node's base transform when the parent
\* is a live node, and the node's base transform when the parent's slot is empty.
C19_Propagation ==
    call.op = "evaluate_all" =>
        \A n \in Live(graph) :
            IF Parent(graph, n) \in Live(graph)
            THEN Mutated(graph, n) = affine_mul(Mutated(graph, Parent(graph, n)), Base(graph, n))
            ELSE Mutated(graph, n) = Base(graph, n)

C19_Witness ==
    /\ call.op = "evaluate_all"
    /\ \E n \in Live(graph) :
          /\ Parent(graph, n) \in Live(graph)
          /\ Parent(graph, Parent(graph, n)) \in Live(graph)
          /\ Mutated(graph, n) # Mutated(old_graph, n)
          /\ Base(graph, Parent(graph, n)) # Base(graph, n)
          /\ Mutated(graph, n) # affine_mul(Base(graph, n), Mutated(graph, Parent(graph, n)))
          /\ Mutated(graph, n) =
                affine_mul(affine_mul(Base(graph, Parent(graph, Parent(graph, n))),
                                      Base(graph, Parent(graph, n))), Base(graph, n))

\* C20 (as claimed): right after remove_entity(id), for an id that insert_entity
\* handed out, the slot of id is empty and so is the slot of every node that was
\* nested under id, at any depth.
C20_RemoveNested ==
    (call.op = "remove_entity" /\ call.i # 0) =>
        /\ At(graph, call.i) = None
        /\ \A n \in Live(old_graph) : Under(old_graph, n, call.i) => At(graph, n) = None

(***************************************************************************)
(* blk_pos (src/src/terrain.rs).  Every value is a whole number that f32   *)
(* holds exactly, so the f32 arithmetic is integer arithmetic; FOV is even *)
(* and `FOV as f32 / -2.` is -(FOV / 2).                                   *)
(***************************************************************************)
FOV          == 6
CUBICAL_SIZE == 40

blk_pos(x, y, center) ==
    LET min == (0 - (FOV \div 2)) * CUBICAL_SIZE
        p   == <<x * CUBICAL_SIZE, 0, y * CUBICAL_SIZE>>
    IN  <<center[1] + min + p[1], center[2] + 0 + p[2], center[3] + min + p[3]>>

(***************************************************************************)
(* blk_pos as a state machine (specification SpecTerrain): block indices   *)
(* and a center, then the call.                                            *)
(***************************************************************************)
MaxBlock == 7    \* the block indices x and y are in 0..MaxBlock

Centers == {0, 1, CUBICAL_SIZE} \X {0, 1, CUBICAL_SIZE} \X {0, 1, CUBICAL_SIZE}

InitTerrain ==
    /\ \E x \in 0..MaxBlock, y \in 0..MaxBlock, center \in Centers :
          call = [op |-> "args", x |-> x, y |-> y, center |-> center]
    /\ ret = Unit
    /\ overflow_checks \in BOOLEAN
    /\ dim = ZERO
    /\ nodes = nothing(dim).nodes
    /\ transform = nothing(dim).transform
    /\ old = nodes
    /\ chained = FALSE
    /\ NoCombine
    /\ NoModel
    /\ NoBrain
    /\ NoGraph

BlkPosCall ==
    /\ call.op = "args"
    /\ ret' = Some(blk_pos(call.x, call.y, call.center))
    /\ call' = [call EXCEPT !.op = "blk_pos"]
    /\ UNCHANGED <<nodes, dim, transform, overflow_checks, old, chained, a, b, c, others>>

NextTerrain == BlkPosCall

SpecTerrain == InitTerrain /\ [][NextTerrain]_vars

\* C21 (as claimed): blk_pos(5, 5, center) is center, for every center, and
\* blk_pos(7, 6, (0, 1, 40)) is (2 * CUBICAL_SIZE, 1, 2 * CUBICAL_SIZE).
C21_BlockCoordinates ==
    call.op = "blk_pos" =>
        /\ (call.x = 5 /\ call.y = 5) => ret.val = call.center
        /\ (call.x = 7 /\ call.y = 6 /\ call.center = <<0, 1, 40>>) =>
              ret.val = <<2 * CUBICAL_SIZE, 1, 2 * CUBICAL_SIZE>>

(***************************************************************************)
(* Properties of addressing and of the cells a call touches                *)
(* (specification Spec).                                                   *)
(***************************************************************************)
\* what the segments hold at the cell p: its material, or None inside an empty run
CellContent(ns, p) ==
    LET k == Containing(ns, Address(p)) IN
    IF At(ns, k).tag = "Voxel" THEN Some(At(ns, k).v[2]) ELSE None
OccupiedCount(ns) == Cardinality({k \in 1..Len(ns) : ns[k].tag = "Voxel"})
IsNothing(ns, k)  == InRange(ns, k) /\ At(ns, k).tag = "Nothing"
\* segment k deleted and the run at segment n lengthened by one
Merged(ns, k, n)  == RemoveAt(SetAt(ns, n, Nothing(At(ns, n).n + 1)), k)

\* C22 (as claimed): in every state of the volume and for every in-bounds coordinate,
\* near_idx returns the index of the segment that contains the coordinate's address.
C22_Addressing ==
    \A p \in Cells :
        near_idx(nodes, dim, overflow_checks, p) = Some(Containing(nodes, Address(p)))

\* C23: remove(c) of an occupied in-bounds cell whose segment has an empty run right
\* before or right after it completes, deletes that segment and lengthens exactly one
\* such neighbouring run by one; every other segment stays as it was.
C23_MergeOnRemoval ==
    (call.op = "remove" /\ call.i \in Cells) =>
        LET k == Containing(old, Address(call.i)) IN
        (At(old, k).tag = "Voxel" /\ (IsNothing(old, k - 1) \/ IsNothing(old, k + 1))) =>
            /\ ret = Unit
            /\ Len(nodes) = Len(old) - 1
            /\ \/ IsNothing(old, k + 1) /\ nodes = Merged(old, k, k + 1)
               \/ IsNothing(old, k - 1) /\ nodes = Merged(old, k, k - 1)

C23_Witness ==
    /\ call.op = "remove" /\ call.i \in Cells
    /\ Containing(old, Address(call.i)) = 1
    /\ At(old, 1).tag = "Voxel"
    /\ IsNothing(old, 0) /\ IsNothing(old, 2)
    /\ nodes = <<Nothing(1), Nothing(2)>>

\* C24 (as claimed): remove(c) of an occupied in-bounds cell whose segment has no
\* empty run next to it (a neighbour is a Voxel or does not exist) completes and
\* puts Nothing(1) in the place of the segment.
C24_RemoveInPlace ==
    (call.op = "remove" /\ call.i \in Cells) =>
        LET k == Containing(old, Address(call.i)) IN
        (At(old, k).tag = "Voxel" /\ ~IsNothing(old, k - 1) /\ ~IsNothing(old, k + 1)) =>
            /\ ret = Unit
            /\ nodes = SetAt(old, k, Nothing(1))

\* C25 (as claimed): remove(c) of an in-bounds cell that lies in an empty run leaves
\* every segment as it was.
C25_RemoveEmpty ==
    (call.op = "remove" /\ call.i \in Cells /\ CellContent(old, call.i) = None) =>
        nodes = old

\* C26 (as claimed): a completed insert(c, Some(m)) with in-bounds c leaves every
\* other in-bounds cell as it was, and the number of occupied cells grows by one when
\* c was empty and stays when c was occupied.
C26_InsertTouchesOwnCell ==
    (call.op = "insert" /\ call.vox # None /\ call.i \in Cells /\ ret = Unit) =>
        /\ \A d \in Cells \ {call.i} : CellContent(nodes, d) = CellContent(old, d)
        /\ OccupiedCount(nodes) =
              OccupiedCount(old) + (IF CellContent(old, call.i) = None THEN 1 ELSE 0)

\* C27 (as claimed): after a completed remove(c) of an in-bounds c for which voxel(c)
\* returned a voxel, voxel(d) returns for every other in-bounds d what it returned
\* before the call.
C27_RemoveTouchesOwnCell ==
    (call.op = "remove" /\ call.i \in Cells /\ ret = Unit /\ Lookup(old, call.i) # None) =>
        \A d \in Cells \ {call.i} : Lookup(nodes, d) = Lookup(old, d)

\* C28 (as claimed): in every state of the volume the coordinate kept in a Voxel
\* segment is the cell at the segment's cumulative address: it lies inside the extent
\* and idx of it is that segment.
C28_StoredCoordinates ==
    \A k \in 0..Len(nodes) - 1 :
        At(nodes, k).tag = "Voxel" =>
            /\ At(nodes, k).v[1] = CellAt(dim, Covered(nodes, k))
            /\ InBounds(dim, At(nodes, k).v[1])
            /\ idx(nodes, dim, overflow_checks, At(nodes, k).v[1]) = Some(k)

(***************************************************************************)
(* Further properties of the brain (specification SpecBrain).              *)
(***************************************************************************)
\* C29 (as claimed): when the brain stands on an unoccupied cell and no path of
\* unoccupied in-bounds cells leads from there to dest, a call of append_destination
\* never ends: it has neither returned nor panicked.
C29_NoPathSpins ==
    (/\ call.op = "append_destination"
     /\ position \in FreeCells
     /\ ~PathExists(position, call.i)) =>
        (ret # Unit /\ ret # Panic)

\* C30 (as claimed): on a route that is not empty pop_move takes the earliest point
\* off the route and returns that point minus the position; on an empty route it
\* returns None and leaves the route empty.
C30_PopMove ==
    call.op = "pop_move" =>
        IF old_route = <<>>
        THEN ret = None /\ route = <<>>
        ELSE /\ route = Tail(old_route)
             /\ ret = Some(<<Head(old_route)[1] - position[1],
                             Head(old_route)[2] - position[2],
                             Head(old_route)[3] - position[3]>>)

====
